---- MODULE Spec2Model ----
(***************************************************************************)
(* Page-diagnostics scripts of persona-chain.                              *)
(*                                                                         *)
(*   Spec          debug_credentials.py: the four event handlers, the      *)
(*                 steps of comprehensive_debug_investigation and its      *)
(*                 summary.                                                *)
(*   SpecClassify  final_personapass_test.py and simple_accurate_test.py:  *)
(*                 the script-text classifiers.                            *)
(*   SpecScripts   one run of debug_credentials.py or of                   *)
(*                 debug_wallet_errors.py.                                 *)
(*                                                                         *)
(* Strings are kept as the source writes them.  A substring test of the    *)
(* source (endswith, in) is a table over the finite input alphabet.        *)
(***************************************************************************)
EXTENDS Naturals, Integers, Sequences, FiniteSets, TLC

VARIABLES
    pc,                \* position in comprehensive_debug_investigation
    console_logs,      \* debug_data['console_logs']
    network_requests,  \* debug_data['network_requests']
    errors,            \* debug_data['errors']
    page_state,        \* debug_data['page_state']
    failed_requests,   \* local list of references into network_requests
    error_logs,        \* local list of references into console_logs
    summary,           \* the summary dict that is returned
    saved,             \* what json.dump wrote to debug_report.json
    out,               \* lines the handlers printed, in order
    rendering,         \* lines 205-228: the entries the analysis printed
    late,              \* history: how many events arrived after the analysis
    events,            \* history: the events the browser delivered, in order
    links,             \* history: per response, the index of the entry it updated
    text,              \* classifier input: the script body, a sequence of lexemes
    cpc,               \* which of the two test scripts have run
    script_analysis,   \* final_personapass_test: analyze_main_application_script()
    test_results,      \* final_personapass_test: test_results of the final test
    simple_results,    \* simple_accurate_test: Test 4 and its line of test_mapping
    wpc,               \* debug_wallet_errors: position in analyze_wallet_errors
    console_messages,  \* debug_wallet_errors: console_messages
    js_errors,         \* debug_wallet_errors: js_errors
    network_failures,  \* debug_wallet_errors: network_failures
    error_details,     \* debug_wallet_errors: the local, bound from line 74 on
    suppressed_errors, \* debug_wallet_errors: references into console_messages
    genuine_errors,    \* debug_wallet_errors: references into console_messages
    wallet_result,     \* debug_wallet_errors: the dict returned
    wout,              \* debug_wallet_errors: lines the handlers printed
    wevents,           \* history: the events delivered to debug_wallet_errors
    apc,               \* advanced_personapass_test: position in the test
    adv_scripts,       \* advanced_personapass_test: the scripts the page names
    adv_method,        \* advanced_personapass_test: node or curl simulation
    adv_i,             \* advanced_personapass_test: the script the loop is at
    total_errors,      \* advanced_personapass_test: total_errors / totalErrors
    scripts_analyzed,  \* advanced_personapass_test: scripts_analyzed
    attempted,         \* history: the scripts whose fetch was started
    simulation_result, \* advanced_personapass_test: run_browser_simulation()
    final_results,     \* advanced_personapass_test: run_comprehensive_test()
    sessions,          \* concurrent calls of comprehensive_debug_investigation
    report_file        \* the one debug_report.json the calls write to

recVars == <<pc, console_logs, network_requests, errors, page_state,
             failed_requests, error_logs, summary, saved, out, rendering,
             events, links, late>>
clsVars == <<text, cpc, script_analysis, test_results, simple_results>>
walVars == <<wpc, console_messages, js_errors, network_failures,
             error_details, suppressed_errors, genuine_errors, wallet_result,
             wout, wevents>>
advVars == <<apc, adv_scripts, adv_method, adv_i, total_errors,
             scripts_analyzed, attempted, simulation_result, final_results>>
sesVars == <<sessions, report_file>>
vars == <<recVars, clsVars, walVars, advVars, sesVars>>

(***************************************************************************)
(* Bounds of the model.                                                    *)
(***************************************************************************)
MaxEvents == 3
MaxLate == 1
MaxLen == 3
MaxBanners == 1
MaxMatches == 11
MaxScripts == 2
MaxSessions == 2
MaxSessionEvents == 2

(***************************************************************************)
(* The event alphabet: what the browser can deliver.                       *)
(***************************************************************************)
ScriptUrl == "/assets/app.js"
StyleUrl == "/assets/app.css"
Urls == {ScriptUrl, StyleUrl}
Statuses == {200, 404}
ContentTypes == {"application/javascript", "text/html"}
ConsoleTypes == {"error", "log"}
ConsoleText == "Uncaught SyntaxError: Unexpected token"
PageErrorText == "Node cannot be found"

\* str.endswith over Urls
EndsWith(url, ext) ==
    \/ ext = ".js" /\ url = ScriptUrl
    \/ ext = ".css" /\ url = StyleUrl

\* the `in` test of a word in a content-type header value
InStr(word, content_type) ==
    \/ word = "javascript" /\ content_type = "application/javascript"
    \/ word = "css" /\ content_type = "text/css"

\* response.ok of the browser driver: status in 200..299
ResponseOk(status) == status >= 200 /\ status <= 299

RequestEvents == [kind : {"request"}, url : Urls]
\* every answer to the script, and the stylesheet answered 404 with a page
ResponseEvents ==
    [kind : {"response"}, url : {ScriptUrl}, status : Statuses,
     content_type : ContentTypes]
    \cup [kind : {"response"}, url : {StyleUrl}, status : {404},
          content_type : {"text/html"}]
ConsoleEvents == [kind : {"console"}, type : ConsoleTypes]
PageErrorEvents == [kind : {"pageerror"}]

Events == RequestEvents \cup ResponseEvents \cup ConsoleEvents \cup PageErrorEvents

\* response.status_text
StatusText(status) == IF status = 200 THEN "OK" ELSE "Not Found"

(***************************************************************************)
(* The handlers.  ts stands for datetime.now(): the ordinal of the event.  *)
(***************************************************************************)
\* a slip: the entry is inserted at the front
handle_console_log_Prepends(logs, msg, ts) ==
    <<[timestamp |-> ts, type |-> msg.type, text |-> ConsoleText]>> \o logs

\* handle_console: the entry appended to debug_data['console_logs']
handle_console_log(logs, msg, ts) ==
    Append(logs, [timestamp |-> ts, type |-> msg.type, text |-> ConsoleText])

\* a slip: only warnings are printed
handle_console_out_WarningsOnly(o, msg, ts) ==
    IF msg.type \in {"warning"}
    THEN Append(o, [line |-> "CONSOLE", at |-> ts, what |-> msg.type])
    ELSE o

\* handle_console: the immediate print of errors and warnings
handle_console_out(o, msg, ts) ==
    IF msg.type \in {"error", "warning"}
    THEN Append(o, [line |-> "CONSOLE", at |-> ts, what |-> msg.type])
    ELSE o

\* handle_request: the entry appended to debug_data['network_requests'].
\* has_status says whether the keys status, status_text, headers_response
\* and ok are in the dict; they are set together by handle_response.
handle_request_log(reqs, request, ts) ==
    Append(reqs, [timestamp |-> ts, method |-> "GET", url |-> request.url,
                  has_status |-> FALSE, status |-> 0, status_text |-> "",
                  headers_response |-> "", ok |-> TRUE])

handle_request_out(o, request, ts) ==
    Append(o, [line |-> "REQUEST", at |-> ts, what |-> request.url])

\* handle_response: the for loop with its break.  The index of the first
\* entry whose url equals response.url, 0 when the loop runs to its end.
MatchIndex(reqs, url) ==
    IF \E i \in 1..Len(reqs) : reqs[i].url = url
    THEN CHOOSE i \in 1..Len(reqs) :
            /\ reqs[i].url = url
            /\ \A j \in 1..(i - 1) : reqs[j].url # url
    ELSE 0

\* a slip: the entry is replaced by the response's dict, not updated
ReqUpdate_Replaces(req, response) ==
    [timestamp |-> 0, method |-> "", url |-> response.url,
     has_status |-> TRUE, status |-> response.status,
     status_text |-> StatusText(response.status),
     headers_response |-> response.content_type,
     ok |-> ResponseOk(response.status)]

\* a slip: the update without the 'ok' key
ReqUpdate_NoOk(req, response) ==
    [req EXCEPT !.has_status = TRUE,
                !.status = response.status,
                !.status_text = StatusText(response.status),
                !.headers_response = response.content_type]

\* handle_response: req.update({...}) on the entry found
ReqUpdate(req, response) ==
    [req EXCEPT !.has_status = TRUE,
                !.status = response.status,
                !.status_text = StatusText(response.status),
                !.headers_response = response.content_type,
                !.ok = ResponseOk(response.status)]

handle_response_log(reqs, response) ==
    LET i == MatchIndex(reqs, response.url)
    IN  IF i = 0 THEN reqs
        ELSE [reqs EXCEPT ![i] = ReqUpdate(reqs[i], response)]

\* handle_response: the MIME check, nested in `if not response.ok`
MimeLines(response, ts) ==
    IF EndsWith(response.url, ".js")
       /\ ~InStr("javascript", response.content_type)
    THEN <<[line |-> "MIME TYPE ISSUE", at |-> ts, what |-> "JS"]>>
    ELSE IF EndsWith(response.url, ".css")
            /\ ~InStr("css", response.content_type)
         THEN <<[line |-> "MIME TYPE ISSUE", at |-> ts, what |-> "CSS"]>>
         ELSE <<>>

\* a slip: the MIME check outside `if not response.ok`
handle_response_out_Unnested(o, response, ts) ==
    (IF ~ResponseOk(response.status)
     THEN Append(o, [line |-> "FAILED REQUEST", at |-> ts,
                     what |-> response.url])
     ELSE o)
    \o MimeLines(response, ts)

handle_response_out(o, response, ts) ==
    IF ~ResponseOk(response.status)
    THEN (Append(o, [line |-> "FAILED REQUEST", at |-> ts,
                     what |-> response.url]))
         \o MimeLines(response, ts)
    ELSE o

\* handle_page_error
handle_page_error_log(errs, ts) ==
    Append(errs, [timestamp |-> ts, message |-> PageErrorText,
                  type |-> "page_error"])

handle_page_error_out(o, ts) ==
    Append(o, [line |-> "PAGE ERROR", at |-> ts, what |-> PageErrorText])

(***************************************************************************)
(* comprehensive_debug_investigation, lines 197-275: the analysis.         *)
(***************************************************************************)
\* req.get('ok', True)
GetOk(req) == IF req.has_status THEN req.ok ELSE TRUE

\* the indices a list comprehension over a log keeps, in order
\* (kept[i] says whether the condition holds of entry i)
RECURSIVE Keep(_, _)
Keep(kept, i) ==
    IF i > Len(kept) THEN <<>>
    ELSE (IF kept[i] THEN <<i>> ELSE <<>>) \o Keep(kept, i + 1)

\* a slip: not req.get('ok', False), without the test of 'status'
IsFailed_DefaultFalse(req) == ~(req.has_status /\ req.ok)

IsFailed(req) == req.has_status /\ ~GetOk(req)

\* a slip: req.get('ok', True) without the test of 'status'
IsSuccessful_NoStatusTest(req) == GetOk(req)

IsSuccessful(req) == req.has_status /\ GetOk(req)
IsErrorLog(log) == log.type = "error"

FailedRequests(reqs) ==
    Keep([i \in 1..Len(reqs) |-> IsFailed(reqs[i])], 1)
SuccessfulRequests(reqs) ==
    Keep([i \in 1..Len(reqs) |-> IsSuccessful(reqs[i])], 1)
ErrorLogs(logs) ==
    Keep([i \in 1..Len(logs) |-> IsErrorLog(logs[i])], 1)

\* lines 205-211 and 223-228: one block is printed for every entry of the
\* filtered list, in list order
Printed(refs) == [n \in 1..Len(refs) |-> refs[n]]

\* a slip: the source list is emptied as it is read
Iterated_Consumed(log) == <<>>

\* lines 198-217: a list comprehension reads its source list and builds a
\* new list; the source keeps its entries
Iterated(log) == log

\* a slip: the lengths tested with >= 0
CriticalIssues_NonStrict(n_error_logs, n_failed, ps) ==
    <<[issue |-> "console errors detected", n |-> n_error_logs],
      [issue |-> "failed network requests", n |-> n_failed]>>

\* a slip: the banner reported only next to a console error
CriticalIssues_BannerNeedsErrors(n_error_logs, n_failed, ps) ==
    (IF n_error_logs > 0
        THEN <<[issue |-> "console errors detected", n |-> n_error_logs]>>
        ELSE <<>>)
    \o (IF n_failed > 0
        THEN <<[issue |-> "failed network requests", n |-> n_failed]>>
        ELSE <<>>)
    \o (IF ~ps.js_execution
        THEN <<[issue |-> "JavaScript execution failed", n |-> 0]>>
        ELSE <<>>)
    \o (IF ps.error_boundary # "" /\ n_error_logs > 0
        THEN <<[issue |-> "Error boundary activated", n |-> 0]>>
        ELSE <<>>)

\* lines 242-259: summary['critical_issues']
CriticalIssues(n_error_logs, n_failed, ps) ==
    (IF n_error_logs > 0
        THEN <<[issue |-> "console errors detected", n |-> n_error_logs]>>
        ELSE <<>>)
    \o (IF n_failed > 0
        THEN <<[issue |-> "failed network requests", n |-> n_failed]>>
        ELSE <<>>)
    \o (IF ~ps.js_execution
        THEN <<[issue |-> "JavaScript execution failed", n |-> 0]>>
        ELSE <<>>)
    \o (IF ps.error_boundary # ""
        THEN <<[issue |-> "Error boundary activated", n |-> 0]>>
        ELSE <<>>)

DebugData == [console_logs |-> console_logs,
              network_requests |-> network_requests,
              errors |-> errors,
              page_state |-> page_state]

\* lines 197-259 over the logs d: the two filtered lists and the critical
\* issues built from their lengths
Aggregate(d) ==
    [failed_requests |-> FailedRequests(d.network_requests),
     error_logs |-> ErrorLogs(d.console_logs),
     critical_issues |->
         CriticalIssues(Len(ErrorLogs(d.console_logs)),
                        Len(FailedRequests(d.network_requests)),
                        d.page_state)]

(***************************************************************************)
(* The state after the handlers are registered (lines 38-122).             *)
(***************************************************************************)
RecEmpty ==
    /\ console_logs = <<>>
    /\ network_requests = <<>>
    /\ errors = <<>>
    /\ page_state = [error_boundary |-> "", js_execution |-> TRUE]
    /\ failed_requests = <<>>
    /\ error_logs = <<>>
    /\ summary = [built |-> FALSE, critical_issues |-> <<>>]
    /\ saved = <<>>
    /\ out = <<>>
    /\ rendering = [failed |-> <<>>, errors |-> <<>>]
    /\ events = <<>>
    /\ links = <<>>
    /\ late = 0

RecInit == pc = "observing" /\ RecEmpty

\* debug_credentials.py is not run
RecOff == pc = "off" /\ RecEmpty

\* before either test script has run
ClsStart ==
    /\ cpc = [final |-> FALSE, simple |-> FALSE]
    /\ script_analysis = [error |-> "", has_counts |-> FALSE,
                          error_handling_patterns |-> 0, actual_errors |-> 0,
                          likely_error_suppression |-> FALSE]
    /\ test_results = [page_loads_without_console_errors |-> FALSE,
                       create_credential_button_functionality |-> FALSE,
                       overall_ui_interactions_functional |-> FALSE,
                       error_suppression_working_effectively |-> FALSE]
    /\ simple_results = [has_counts |-> FALSE, error_handling_count |-> 0,
                         actual_errors |-> 0,
                         error_suppression_working |-> FALSE,
                         page_loads_without_console_errors |-> FALSE]

ClsIdle == text = <<>> /\ ClsStart

\* debug_wallet_errors.py, lines 18-21: the three lists are empty and
\* error_details is not bound yet
WalEmpty ==
    /\ console_messages = <<>>
    /\ js_errors = <<>>
    /\ network_failures = <<>>
    /\ error_details = [bound |-> FALSE, n |-> 0]
    /\ suppressed_errors = <<>>
    /\ genuine_errors = <<>>
    /\ wallet_result = [returned |-> FALSE]
    /\ wout = <<>>
    /\ wevents = <<>>

\* debug_wallet_errors.py is not run
WalOff == wpc = "off" /\ WalEmpty

\* lines 52-56: the handlers are registered, goto is about to be awaited
WalInit == wpc = "navigating" /\ WalEmpty

\* advanced_personapass_test.py is not run
AdvEmpty ==
    /\ adv_method = ""
    /\ adv_i = 0
    /\ total_errors = <<>>
    /\ scripts_analyzed = 0
    /\ attempted = {}
    /\ simulation_result = [returned |-> FALSE]
    /\ final_results = [built |-> FALSE]

AdvOff == apc = "off" /\ adv_scripts = <<>> /\ AdvEmpty

\* comprehensive_debug_investigation is not called concurrently
SesOff == sessions = <<>> /\ report_file = <<>>

Idle == ClsIdle /\ WalOff /\ AdvOff /\ SesOff

Init == RecInit /\ Idle

\* The handlers stay registered on the page from line 71 on: the driver
\* calls them, one at a time, whenever the function waits (goto and the
\* probes, the screenshot, browser.close()).
Listening == pc \in {"observing", "screenshot", "closing"}

Now == Len(events) + 1

Deliver(e, link) ==
    /\ Listening
    /\ Len(events) < MaxEvents
    /\ pc # "observing" => late < MaxLate
    /\ late' = IF pc = "observing" THEN late ELSE late + 1
    /\ events' = Append(events, e)
    /\ links' = Append(links, link)

HandleConsole(msg) ==
    /\ Deliver(msg, 0)
    /\ console_logs' = handle_console_log(console_logs, msg, Now)
    /\ out' = handle_console_out(out, msg, Now)
    /\ UNCHANGED <<pc, network_requests, errors, page_state, failed_requests,
                   error_logs, summary, saved, rendering,
                   clsVars, walVars, advVars, sesVars>>

HandleRequest(request) ==
    /\ Deliver(request, 0)
    /\ network_requests' = handle_request_log(network_requests, request, Now)
    /\ out' = handle_request_out(out, request, Now)
    /\ UNCHANGED <<pc, console_logs, errors, page_state, failed_requests,
                   error_logs, summary, saved, rendering,
                   clsVars, walVars, advVars, sesVars>>

HandleResponse(response) ==
    /\ Deliver(response, MatchIndex(network_requests, response.url))
    /\ network_requests' = handle_response_log(network_requests, response)
    /\ out' = handle_response_out(out, response, Now)
    /\ UNCHANGED <<pc, console_logs, errors, page_state, failed_requests,
                   error_logs, summary, saved, rendering,
                   clsVars, walVars, advVars, sesVars>>

HandlePageError(error) ==
    /\ Deliver(error, 0)
    /\ errors' = handle_page_error_log(errors, Now)
    /\ out' = handle_page_error_out(out, Now)
    /\ UNCHANGED <<pc, console_logs, network_requests, page_state,
                   failed_requests, error_logs, summary, saved, rendering,
                   clsVars, walVars, advVars, sesVars>>

\* Lines 129-192: goto, the wait and the probes of the page have returned;
\* the probes fill page_state.  A failed JavaScript test (line 176) is
\* caught and recorded in errors.  Nothing is awaited between line 192 and
\* the analysis.
Probe(boundary, js_ok) ==
    /\ pc = "observing"
    /\ page_state' = [error_boundary |-> boundary, js_execution |-> js_ok]
    /\ errors' = IF js_ok THEN errors
                 ELSE Append(errors, [timestamp |-> Now,
                                      message |-> "JS execution test failed",
                                      type |-> "js_execution_error"])
    /\ pc' = "analysing"
    /\ UNCHANGED <<console_logs, network_requests, failed_requests,
                   error_logs, summary, saved, out, events, links, late,
                   rendering,
                   clsVars, walVars, advVars, sesVars>>

\* Lines 197-228: the two logs are filtered into new lists and printed.
Analyse ==
    /\ pc = "analysing"
    /\ failed_requests' = FailedRequests(network_requests)
    /\ error_logs' = ErrorLogs(console_logs)
    /\ network_requests' = Iterated(network_requests)
    /\ console_logs' = Iterated(console_logs)
    /\ rendering' = [failed |-> Printed(FailedRequests(network_requests)),
                     errors |-> Printed(ErrorLogs(console_logs))]
    /\ pc' = "screenshot"
    /\ UNCHANGED <<errors, page_state, summary, saved, out, events, links,
                   late, clsVars, walVars, advVars, sesVars>>

\* Lines 235-275: the screenshot is taken, the summary is built from the
\* two filtered lists, debug_data is written out and the pair is returned.
Summarize ==
    /\ pc = "screenshot"
    /\ summary' = [built |-> TRUE,
                   critical_issues |->
                       CriticalIssues(Len(error_logs), Len(failed_requests),
                                      page_state)]
    /\ saved' = <<DebugData>>
    /\ pc' = "closing"
    /\ UNCHANGED <<console_logs, network_requests, errors, page_state,
                   failed_requests, error_logs, out, events, links, late, rendering,
                   clsVars, walVars, advVars, sesVars>>

\* Lines 277-284: an await of the try block raised (the goto timeout, a
\* probe, the screenshot).
Fail ==
    /\ pc \in {"observing", "screenshot"}
    /\ errors' = Append(errors, [timestamp |-> Now,
                                 message |-> "Timeout 30000ms exceeded",
                                 type |-> "investigation_error"])
    /\ summary' = [built |-> TRUE,
                   critical_issues |->
                       <<[issue |-> "Timeout 30000ms exceeded", n |-> 0]>>]
    /\ pc' = "closing"
    /\ UNCHANGED <<console_logs, network_requests, page_state,
                   failed_requests, error_logs, saved, out, events, links, late,
                   rendering,
                   clsVars, walVars, advVars, sesVars>>

\* a slip: browser.close() as the last statement of the try block, so
\* that it runs only when debug_data was saved
Close_InTryOnly ==
    /\ pc = "closing"
    /\ saved # <<>>
    /\ pc' = "closed"
    /\ UNCHANGED <<console_logs, network_requests, errors, page_state,
                   failed_requests, error_logs, summary, saved, out, events,
                   links, late, rendering,
                   clsVars, walVars, advVars, sesVars>>

\* Lines 286-287: browser.close() has returned.
Close ==
    /\ pc = "closing"
    /\ pc' = "closed"
    /\ UNCHANGED <<console_logs, network_requests, errors, page_state,
                   failed_requests, error_logs, summary, saved, out, events,
                   links, late, rendering,
                   clsVars, walVars, advVars, sesVars>>

Boundaries == {"", "Something went wrong"}

Next ==
    \/ \E msg \in ConsoleEvents : HandleConsole(msg)
    \/ \E request \in RequestEvents : HandleRequest(request)
    \/ \E response \in ResponseEvents : HandleResponse(response)
    \/ \E error \in PageErrorEvents : HandlePageError(error)
    \/ \E boundary \in Boundaries, js_ok \in BOOLEAN : Probe(boundary, js_ok)
    \/ Analyse
    \/ Summarize
    \/ Fail
    \/ Close

Spec == Init /\ [][Next]_vars

\* The coroutine is the only task of asyncio.run: it is resumed whenever
\* the await it waits in is over, and every await of the try block ends,
\* with a value or with an exception (goto and the waits carry timeouts).
Fairness ==
    /\ WF_vars((\E boundary \in Boundaries, js_ok \in BOOLEAN :
                    Probe(boundary, js_ok)) \/ Fail)
    /\ WF_vars(Analyse)
    /\ WF_vars(Summarize \/ Fail)
    /\ WF_vars(Close)

SpecFair == Init /\ [][Next]_vars /\ Fairness

\* A session that has already logged m console errors: the state after m
\* calls of handle_console.
RECURSIVE LoggedErrors(_)
LoggedErrors(m) ==
    IF m = 0 THEN <<>>
    ELSE handle_console_log(LoggedErrors(m - 1),
                            [kind |-> "console", type |-> "error"], m)

RECURSIVE EchoedErrors(_)
EchoedErrors(m) ==
    IF m = 0 THEN <<>>
    ELSE handle_console_out(EchoedErrors(m - 1),
                            [kind |-> "console", type |-> "error"], m)

LongInit ==
    /\ pc = "observing"
    /\ \E m \in 0..MaxMatches :
          /\ console_logs = LoggedErrors(m)
          /\ out = EchoedErrors(m)
          /\ events = [k \in 1..m |-> [kind |-> "console", type |-> "error"]]
          /\ links = [k \in 1..m |-> 0]
    /\ network_requests = <<>>
    /\ errors = <<>>
    /\ page_state = [error_boundary |-> "", js_execution |-> TRUE]
    /\ failed_requests = <<>>
    /\ error_logs = <<>>
    /\ summary = [built |-> FALSE, critical_issues |-> <<>>]
    /\ saved = <<>>
    /\ rendering = [failed |-> <<>>, errors |-> <<>>]
    /\ late = 0
    /\ Idle

SpecLong == LongInit /\ [][Next]_vars

(***************************************************************************)
(* Properties of the recorder.                                             *)
(***************************************************************************)
IsResponse(k) == events[k].kind = "response"

\* the number of requests recorded when event k arrived
ReqCount(k) == Cardinality({j \in 1..(k - 1) : events[j].kind = "request"})

\* the entries earlier responses were linked to
MatchedBefore(k) == {links[j] : j \in {h \in 1..(k - 1) : IsResponse(h)}}

\* the most recently recorded entry with the url of response k that no
\* earlier response was linked to, 0 when there is none
NewestUnmatched(k) ==
    LET c == {i \in 1..ReqCount(k) :
                 /\ network_requests[i].url = events[k].url
                 /\ i \notin MatchedBefore(k)}
    IN  IF c = {} THEN 0 ELSE CHOOSE i \in c : \A j \in c : j <= i

\* C1: each response is matched to the most recently recorded request
\* with its URL that is still unmatched when the response arrives.
C1_MostRecentUnmatched ==
    \A k \in 1..Len(events) : IsResponse(k) => links[k] = NewestUnmatched(k)

\* C5: the requests counted as failed are at most the requests with a
\* recorded response, and each of them was linked to a response whose
\* success flag is false.
Responded == {i \in 1..Len(network_requests) : network_requests[i].has_status}

FailedNow ==
    IF pc \in {"observing", "analysing"} THEN FailedRequests(network_requests)
    ELSE failed_requests

C5_FailedHaveResponse ==
    /\ Len(FailedNow) <= Cardinality(Responded)
    /\ \A n, m \in 1..Len(FailedNow) : FailedNow[n] = FailedNow[m] => n = m
    /\ \A n \in 1..Len(FailedNow) :
          /\ FailedNow[n] \in Responded
          /\ \E k \in 1..Len(events) :
                /\ IsResponse(k)
                /\ links[k] = FailedNow[n]
                /\ ~ResponseOk(events[k].status)

C5_Witness ==
    /\ pc = "closing"
    /\ summary.built
    /\ Len(failed_requests) = 1
    /\ Cardinality(Responded) < Len(network_requests)

\* C6: once the session has ended, an append fails and leaves the logs
\* as they were.
Ended == pc \in {"closing", "closed"}

C6_FrozenAfterEnd ==
    [][Ended => UNCHANGED <<console_logs, network_requests, errors>>]_vars

\* C7: no event edits, overwrites or removes an entry already recorded in
\* the console, network-request or error log.
IsPrefix(a, b) ==
    /\ Len(a) <= Len(b)
    /\ \A i \in 1..Len(a) : a[i] = b[i]

RequestKeys(req) ==
    [timestamp |-> req.timestamp, method |-> req.method, url |-> req.url]

InDebugData(k) ==
    \E i \in 1..Len(network_requests) :
        /\ network_requests[i].url = events[k].url
        /\ network_requests[i].has_status
        /\ network_requests[i].status = events[k].status

C8_OrphanVisible ==
    \A k \in 1..Len(events) :
        IsResponse(k) /\ NewestUnmatched(k) = 0 => InDebugData(k)

\* C9: a failed response with a MIME mismatch emits a finding on arrival,
\* and the finding is in the report.
Mismatch(k) ==
    \/ EndsWith(events[k].url, ".js")
          /\ ~InStr("javascript", events[k].content_type)
    \/ EndsWith(events[k].url, ".css")
          /\ ~InStr("css", events[k].content_type)

MimePrinted(k) ==
    \E n \in 1..Len(out) : out[n].line = "MIME TYPE ISSUE" /\ out[n].at = k

MimeInReport ==
    \E n \in 1..Len(summary.critical_issues) :
        summary.critical_issues[n].issue = "MIME type mismatch"

C9_MimeFindingInReport ==
    \A k \in 1..Len(events) :
        IsResponse(k) /\ ~ResponseOk(events[k].status) /\ Mismatch(k)
            => /\ MimePrinted(k)
               /\ pc = "closed" /\ saved # <<>> => MimeInReport

\* C10: a script response whose content-type is no script media type
\* emits a MIME finding whatever its status.
ScriptMismatch(k) ==
    /\ IsResponse(k)
    /\ EndsWith(events[k].url, ".js")
    /\ ~InStr("javascript", events[k].content_type)

C10_MimeRegardlessOfStatus ==
    \A k \in 1..Len(events) : ScriptMismatch(k) => MimePrinted(k)

\* C10 as amended: it emits the MIME line exactly when its status is
\* outside 200-299.
C10_MimeOnlyWhenFailed ==
    \A k \in 1..Len(events) :
        ScriptMismatch(k) => (MimePrinted(k) <=> ~ResponseOk(events[k].status))

C10_Witness ==
    \E k \in 1..Len(events) :
        ScriptMismatch(k) /\ ResponseOk(events[k].status) /\ ~MimePrinted(k)

(***************************************************************************)
(* Properties of the report.                                               *)
(***************************************************************************)
\* the report was built and written out, and no event arrived after the
\* probes returned: the logs were frozen while they were aggregated
ReportOfFrozenLogs == saved # <<>> /\ late = 0

IssueNames ==
    {summary.critical_issues[n].issue : n \in 1..Len(summary.critical_issues)}

SpecIssueNames == {"console errors detected", "failed network requests",
                   "MIME type mismatch", "Error boundary activated"}

\* C11: the critical issues hold an entry for console errors iff an error
\* was logged, for failed requests iff a request failed, for a MIME
\* mismatch iff a MIME finding was emitted, for a failure banner iff the
\* banner was found, and nothing else.
C11_CriticalIssuesExact ==
    ReportOfFrozenLogs =>
        /\ "console errors detected" \in IssueNames
              <=> \E i \in 1..Len(console_logs) : console_logs[i].type = "error"
        /\ "failed network requests" \in IssueNames
              <=> \E i \in 1..Len(network_requests) :
                     /\ network_requests[i].has_status
                     /\ ~network_requests[i].ok
        /\ MimeInReport
              <=> \E n \in 1..Len(out) : out[n].line = "MIME TYPE ISSUE"
        /\ "Error boundary activated" \in IssueNames
              <=> page_state.error_boundary # ""
        /\ IssueNames \subseteq SpecIssueNames

\* the events of a URL among the first upto events
UrlEvents(ev, url, upto) ==
    {j \in 1..upto : ev[j].kind \in {"request", "response"} /\ ev[j].url = url}

\* event k is a response outside 200-299 and, among the first upto events,
\* its URL has one request, recorded before it, and no other response
SoleExchange(ev, k, upto) ==
    /\ k \in 1..upto
    /\ ev[k].kind = "response"
    /\ ~ResponseOk(ev[k].status)
    /\ \E r \in 1..(k - 1) :
          /\ ev[r].kind = "request"
          /\ UrlEvents(ev, ev[k].url, upto) = {r, k}

\* the number of events that arrived before the probes returned
Observed == Len(events) - late

\* C12: a request followed by a response for its URL with a status outside
\* 200-299 links the two, raises the number of failed requests by exactly
\* one, and the critical issues of the report hold a failed-request entry.
C12_FailedResponseCounted ==
    [][/\ (/\ Len(events') = Len(events) + 1
           /\ SoleExchange(events', Len(events'), Len(events')))
          => LET k == Len(events')
                 i == links'[k]
             IN  /\ i > 0
                 /\ events'[network_requests'[i].timestamp].kind = "request"
                 /\ network_requests'[i].url = events'[k].url
                 /\ network_requests'[i].has_status
                 /\ network_requests'[i].status = events'[k].status
                 /\ ~network_requests'[i].ok
                 /\ Len(FailedRequests(network_requests'))
                       = Len(FailedRequests(network_requests)) + 1
       /\ (/\ saved = <<>> /\ saved' # <<>>
           /\ \E k \in 1..Observed : SoleExchange(events, k, Observed))
          => \E n \in 1..Len(summary'.critical_issues) :
                /\ summary'.critical_issues[n].issue = "failed network requests"
                /\ summary'.critical_issues[n].n >= 1]_vars

C12_Witness ==
    /\ pc = "closed"
    /\ saved # <<>>
    /\ \E k \in 1..Observed : SoleExchange(events, k, Observed)
    /\ "failed network requests" \in IssueNames

\* C13: a request without a response is never among the failed requests,
\* and the report holds a failed-request issue only when a response outside
\* 200-299 was recorded: the unanswered request adds none.
Pending == {i \in 1..Len(network_requests) : ~network_requests[i].has_status}

C13_PendingNotFailed ==
    /\ \A n \in 1..Len(FailedNow) : FailedNow[n] \notin Pending
    /\ summary.built /\ "failed network requests" \in IssueNames
          => \E k \in 1..Observed :
                IsResponse(k) /\ ~ResponseOk(events[k].status)

C13_Witness ==
    /\ pc = "closed"
    /\ saved # <<>>
    /\ \E i \in Pending : network_requests[i].timestamp <= Observed
    /\ summary.critical_issues = <<>>

\* C14: on a timeout the events recorded so far are still aggregated; the
\* report carries the issues derived from them and the timeout is no
\* critical issue.
TimedOut ==
    \E n \in 1..Len(errors) : errors[n].type = "investigation_error"

\* the ordinal the except block stamped on its entry
TimeoutAt ==
    LET n == CHOOSE n \in 1..Len(errors) :
                 errors[n].type = "investigation_error"
    IN  errors[n].timestamp

C14_TimeoutStillAggregated ==
    TimedOut /\ summary.built =>
        /\ "Timeout 30000ms exceeded" \notin IssueNames
        /\ (\E k \in 1..(TimeoutAt - 1) :
               events[k].kind = "console" /\ events[k].type = "error")
           => "console errors detected" \in IssueNames

\* C15: in whatever order the events arrive, each delivered event is in
\* the logs of the report.
C15_NoEventLost ==
    \A k \in 1..Len(events) :
        /\ events[k].kind = "console"
              => \E i \in 1..Len(console_logs) : console_logs[i].timestamp = k
        /\ events[k].kind = "request"
              => \E i \in 1..Len(network_requests) :
                    network_requests[i].timestamp = k
        /\ events[k].kind = "pageerror"
              => \E i \in 1..Len(errors) : errors[i].timestamp = k
        /\ events[k].kind = "response"
              => \E i \in 1..Len(network_requests) :
                    /\ network_requests[i].url = events[k].url
                    /\ network_requests[i].has_status
                    /\ network_requests[i].status = events[k].status
                    /\ network_requests[i].headers_response
                          = events[k].content_type

\* C16: aggregating the frozen logs of the report once more gives the
\* lists and the critical issues the report was built from.
Aggregated ==
    [failed_requests |-> failed_requests,
     error_logs |-> error_logs,
     critical_issues |-> summary.critical_issues]

AnalysisStep == pc = "analysing" /\ pc' = "screenshot"
SummaryStep == pc = "screenshot" /\ saved' # saved

C17_InputsUnchanged ==
    [][/\ AnalysisStep \/ SummaryStep
          => UNCHANGED <<console_logs, network_requests, errors, page_state>>
       /\ SummaryStep => saved' = <<DebugData>>]_vars

C17_Witness ==
    /\ saved # <<>>
    /\ Len(console_logs) > 0
    /\ Len(errors) > 0
    /\ \E i \in 1..Len(network_requests) : network_requests[i].has_status

\* the sample cap of the reports: total_errors[:10], slice(0, 10)
SampleCap == 10

\* C21: whatever the number of entries of a category, at most 10 of them
\* are printed, and the count in the report is the full number.
C21_SampleCap ==
    /\ Len(rendering.errors) <= SampleCap
    /\ Len(rendering.failed) <= SampleCap
    /\ saved # <<>>
          => \A n \in 1..Len(summary.critical_issues) :
                summary.critical_issues[n].issue = "console errors detected"
                   => summary.critical_issues[n].n = Len(error_logs)

(***************************************************************************)
(* The script-text classifiers.                                            *)
(*                                                                         *)
(* A script body is a sequence of lines, joined by newlines.  No match of  *)
(* a pattern below spans two of these lines, so re.findall and str.count   *)
(* over the body are the sums over its lines; the counts of one line are   *)
(* tabulated from the patterns.                                            *)
(***************************************************************************)
LineA == "Uncaught SyntaxError: Unexpected token"
LineB == "if (msg.includes(\"SyntaxError\")) { return; }"
LineC == "Uncaught (in promise) SyntaxError: Unexpected token"
LineD == "console.error(e); if (e.name === \"SyntaxError\") { retry(); }"
LineE == "try{ load(); }catch(e){ if (m.includes(\"SyntaxError\")) skip(); }"
LineF == "render(app);"
Lines == {LineA, LineB, LineC, LineD, LineE, LineF}

Texts == UNION {[1..n -> Lines] : n \in 0..MaxLen}

\* final_personapass_test.py, lines 20-32, as written in the source
error_handling_patterns ==
    << "\"SyntaxError\"",
       "'SyntaxError'",
       "\\.includes\\(\"SyntaxError\"\\)",
       "\\.includes\\(\"Invalid or unexpected token\"\\)",
       "\\.includes\\(\"Node cannot be found\"\\)",
       "message\\?\\.\\includes\\(\"Node",
       "error\\?\\.\\message\\.includes\\(\"Node",
       "catch\\s*\\(\\s*\\w+\\s*\\)\\s*{[^}]*SyntaxError",
       "if\\s*\\([^)]*SyntaxError[^)]*\\)",
       "===\\s*\"SyntaxError\"",
       "!==\\s*\"SyntaxError\"" >>

\* lines 35-41
actual_error_patterns ==
    << "^SyntaxError:",
       "Uncaught SyntaxError",
       "^\\s*throw new SyntaxError",
       "console\\.error.*SyntaxError",
       "SyntaxError.*at\\s+line" >>

\* re compiles the pattern: a backslash before an ASCII letter that is no
\* escape of the re syntax (\i, \m) is re.error "bad escape".
Compiles(pattern) ==
    pattern \notin {"message\\?\\.\\includes\\(\"Node",
                    "error\\?\\.\\message\\.includes\\(\"Node"}

\* the lines a pattern matches (once each), re.MULTILINE | re.IGNORECASE
MatchedLines(pattern) ==
    CASE pattern = "\"SyntaxError\"" -> {LineB, LineD, LineE}
      [] pattern = "\\.includes\\(\"SyntaxError\"\\)" -> {LineB, LineE}
      [] pattern = "catch\\s*\\(\\s*\\w+\\s*\\)\\s*{[^}]*SyntaxError" -> {LineE}
      [] pattern = "if\\s*\\([^)]*SyntaxError[^)]*\\)" -> {LineB, LineD, LineE}
      [] pattern = "===\\s*\"SyntaxError\"" -> {LineD}
      [] pattern = "Uncaught SyntaxError" -> {LineA}
      [] pattern = "console\\.error.*SyntaxError" -> {LineD}
      [] OTHER -> {}

\* len(re.findall(pattern, js_content, re.MULTILINE | re.IGNORECASE))
Findall(pattern, js_content) ==
    Cardinality({i \in 1..Len(js_content) :
                    js_content[i] \in MatchedLines(pattern)})

RECURSIVE SumFindall(_, _, _)
SumFindall(patterns, js_content, i) ==
    IF i > Len(patterns) THEN 0
    ELSE Findall(patterns[i], js_content)
            + SumFindall(patterns, js_content, i + 1)

\* a loop over a pattern list raises at its first pattern that does not
\* compile
Raises(patterns) == \E i \in 1..Len(patterns) : ~Compiles(patterns[i])

\* line 67
likely_error_suppression(error_handling_count, actual_error_count) ==
    error_handling_count > 0 /\ actual_error_count = 0

\* lines 16-68: the dict returned, or raised = TRUE when re.error leaves
\* the function
analyze_javascript_for_real_errors(js_content) ==
    IF Raises(error_handling_patterns) \/ Raises(actual_error_patterns)
    THEN [raised |-> TRUE, error_handling_patterns |-> 0,
          actual_errors |-> 0, likely_error_suppression |-> FALSE]
    ELSE LET h == SumFindall(error_handling_patterns, js_content, 1)
             a == SumFindall(actual_error_patterns, js_content, 1)
         IN  [raised |-> FALSE, error_handling_patterns |-> h,
              actual_errors |-> a,
              likely_error_suppression |-> likely_error_suppression(h, a)]

\* what the three curl calls of a test can end in
Fetches == {"ok", "no_html", "no_script_tag", "no_script"}

\* lines 104-159
analyze_main_application_script(fetch, js_content) ==
    LET failed(msg) ==
            [error |-> msg, has_counts |-> FALSE,
             error_handling_patterns |-> 0, actual_errors |-> 0,
             likely_error_suppression |-> FALSE]
        analysis == analyze_javascript_for_real_errors(js_content)
    IN  CASE fetch = "no_html" -> failed("Could not fetch HTML")
          [] fetch = "no_script_tag" ->
                failed("Could not find main application script")
          [] fetch = "no_script" -> failed("Could not fetch main script")
          [] OTHER ->
                IF analysis.raised THEN failed("bad escape \\i at position 11")
                ELSE [error |-> "", has_counts |-> TRUE,
                      error_handling_patterns |->
                          analysis.error_handling_patterns,
                      actual_errors |-> analysis.actual_errors,
                      likely_error_suppression |->
                          analysis.likely_error_suppression]

\* script_analysis.get(key, default): the counts are absent from an
\* {'error': ...} dict, and ClsIdle and failed() hold the defaults there
has_actual_errors(sa) == sa.actual_errors > 0
error_suppression_working(sa) ==
    sa.error_handling_patterns > 0 /\ sa.actual_errors = 0

\* lines 296-317
TestResults(page_loads, sa, react_structure_good, credential_present) ==
    [page_loads_without_console_errors |->
         page_loads /\ ~has_actual_errors(sa),
     create_credential_button_functionality |-> credential_present,
     overall_ui_interactions_functional |->
         react_structure_good /\ page_loads,
     error_suppression_working_effectively |->
         error_suppression_working(sa)]

\* simple_accurate_test.py, lines 166-174: the strings counted
error_handling_indicators ==
    << "\"SyntaxError\"", "'SyntaxError'", "\"Node cannot be found\"",
       "'Node cannot be found'", ".includes(\"", "try{", "catch(" >>

\* the lines that hold a string (once each)
HoldingLines(string) ==
    CASE string = "\"SyntaxError\"" -> {LineB, LineD, LineE}
      [] string = ".includes(\"" -> {LineB, LineE}
      [] string = "try{" -> {LineE}
      [] string = "catch(" -> {LineE}
      [] string = "Uncaught SyntaxError:" -> {LineA}
      [] string = "console.error(" -> {LineD}
      [] OTHER -> {}

\* js_content.count(string)
Count(string, js_content) ==
    Cardinality({i \in 1..Len(js_content) :
                    js_content[i] \in HoldingLines(string)})

RECURSIVE SumCount(_, _, _)
SumCount(strings, js_content, i) ==
    IF i > Len(strings) THEN 0
    ELSE Count(strings[i], js_content) + SumCount(strings, js_content, i + 1)

Bool(b) == IF b THEN 1 ELSE 0

\* lines 179-186
runtime_errors(js_content) ==
    Bool(Count("Uncaught SyntaxError:", js_content) > 0)
    + Bool(Count("Uncaught TypeError:", js_content) > 0)
    + Bool(Count("Uncaught ReferenceError:", js_content) > 0)
    + Bool(Count("console.error(", js_content) > 10)

\* a slip: the result set from the handling count alone
simple_suppression_NoActual(error_handling_count, actual_errors) ==
    error_handling_count > 5

\* line 192
simple_suppression(error_handling_count, actual_errors) ==
    error_handling_count > 5 /\ actual_errors = 0

\* lines 134-209 and 255
SimpleTest4(page_loads, fetch, js_content) ==
    IF fetch # "ok"
    THEN [has_counts |-> FALSE, error_handling_count |-> 0,
          actual_errors |-> 0, error_suppression_working |-> FALSE,
          page_loads_without_console_errors |-> FALSE]
    ELSE LET h == SumCount(error_handling_indicators, js_content, 1)
             a == runtime_errors(js_content)
             w == simple_suppression(h, a)
         IN  [has_counts |-> TRUE, error_handling_count |-> h,
              actual_errors |-> a, error_suppression_working |-> w,
              page_loads_without_console_errors |-> page_loads /\ w]

\* the served script is fixed before the tests run
ClsInit == text \in Texts /\ ClsStart

\* final_personapass_test.py: run_comprehensive_final_test
RunFinal(page_loads, fetch, react_structure_good, credential_present) ==
    /\ ~cpc.final
    /\ script_analysis' = analyze_main_application_script(fetch, text)
    /\ test_results' = TestResults(page_loads, script_analysis',
                                   react_structure_good, credential_present)
    /\ cpc' = [cpc EXCEPT !.final = TRUE]
    /\ UNCHANGED <<text, simple_results, recVars, walVars,
                   advVars, sesVars>>

\* simple_accurate_test.py: test_personapass_comprehensive, Test 4
RunSimple(page_loads, fetch) ==
    /\ ~cpc.simple
    /\ simple_results' = SimpleTest4(page_loads, fetch, text)
    /\ cpc' = [cpc EXCEPT !.simple = TRUE]
    /\ UNCHANGED <<text, script_analysis, test_results, recVars, walVars,
                   advVars, sesVars>>

ClassifyInit == RecInit /\ ClsInit /\ WalOff /\ AdvOff /\ SesOff

ClassifyNext ==
    \/ \E page_loads \in BOOLEAN, fetch \in Fetches,
          react_structure_good \in BOOLEAN, credential_present \in BOOLEAN :
          RunFinal(page_loads, fetch, react_structure_good, credential_present)
    \/ \E page_loads \in BOOLEAN, fetch \in Fetches :
          RunSimple(page_loads, fetch)

SpecClassify == ClassifyInit /\ [][ClassifyNext]_vars

(***************************************************************************)
(* Properties of the classifiers.                                          *)
(***************************************************************************)
FetchErrors == {"Could not fetch HTML",
                "Could not find main application script",
                "Could not fetch main script"}

\* the final test fetched the script and handed it to the classifier
Classified == cpc.final /\ script_analysis.error \notin FetchErrors

\* C2: no text is reported both as a handled-error reference and as a
\* genuine error, by either classifier.
C2_MutuallyExclusive ==
    /\ ~(/\ script_analysis.likely_error_suppression
         /\ has_actual_errors(script_analysis))
    /\ ~(/\ test_results.error_suppression_working_effectively
         /\ has_actual_errors(script_analysis))
    /\ ~(/\ simple_results.error_suppression_working
         /\ simple_results.actual_errors > 0)

C2_Witness ==
    /\ cpc.simple
    /\ simple_results.error_handling_count > 5
    /\ simple_results.actual_errors > 0

\* C3: a text with an uncaught marker and an error-type name is classified
\* as a genuine error, also when it matches a handling pattern, and the
\* report flags it.
UncaughtLines == {LineA, LineC}

HasUncaughtError == \E i \in 1..Len(text) : text[i] \in UncaughtLines

C3_UncaughtIsGenuine ==
    Classified /\ HasUncaughtError
        => /\ has_actual_errors(script_analysis)
           /\ ~script_analysis.likely_error_suppression
           /\ ~test_results.page_loads_without_console_errors

\* C4: a text that names the error type only inside a containment check,
\* comparison or quoted literal, with no uncaught marker, is classified as
\* a handled-error reference and yields no genuine error.
ReferenceLines == {LineB, LineD, LineE}

HandledOnly ==
    /\ \E i \in 1..Len(text) : text[i] \in ReferenceLines
    /\ \A i \in 1..Len(text) : text[i] \notin UncaughtLines

C4_ReferenceIsHandled ==
    Classified /\ HandledOnly
        => /\ script_analysis.likely_error_suppression
           /\ ~has_actual_errors(script_analysis)
           /\ test_results.error_suppression_working_effectively

SuppressedText == "[suppressed] SyntaxError: Unexpected token"
WalletConsoleTexts == {ConsoleText, SuppressedText}

\* 'suppressed' in text.lower(), over WalletConsoleTexts
InLower(word, string) == word = "suppressed" /\ string = SuppressedText

WalletConsoleEvents ==
    [kind : {"console"}, type : ConsoleTypes, text : WalletConsoleTexts]
WalletResponseEvents ==
    [kind : {"response"}, url : {ScriptUrl}, status : Statuses]
WalletEvents ==
    WalletConsoleEvents \cup PageErrorEvents \cup WalletResponseEvents

\* handle_console, lines 24-31: every message is appended and printed
wallet_handle_console_log(msgs, msg, ts) ==
    Append(msgs, [type |-> msg.type, text |-> msg.text, timestamp |-> ts])

wallet_handle_console_out(o, msg, ts) ==
    Append(o, [line |-> "Console", at |-> ts, what |-> msg.type])

\* handle_page_error, lines 34-39
wallet_handle_page_error_log(errs, ts) ==
    Append(errs, [message |-> PageErrorText, timestamp |-> ts])

wallet_handle_page_error_out(o, ts) ==
    Append(o, [line |-> "Page Error", at |-> ts, what |-> PageErrorText])

\* handle_response, lines 42-50: only a response that is not ok is kept
wallet_handle_response_log(failures, response, ts) ==
    IF ~ResponseOk(response.status)
    THEN Append(failures, [url |-> response.url, status |-> response.status,
                           statusText |-> StatusText(response.status),
                           timestamp |-> ts])
    ELSE failures

wallet_handle_response_out(o, response, ts) ==
    IF ~ResponseOk(response.status)
    THEN Append(o, [line |-> "Network Failure", at |-> ts,
                    what |-> response.url])
    ELSE o

\* a slip: the genuine errors taken by type alone
IsGenuine_AnyError(msg) == msg.type = "error"

\* lines 201-202
IsSuppressed(msg) == InLower("suppressed", msg.text)
IsGenuine(msg) == msg.type = "error" /\ ~InLower("suppressed", msg.text)

SuppressedErrors(msgs) ==
    Keep([i \in 1..Len(msgs) |-> IsSuppressed(msgs[i])], 1)
GenuineErrors(msgs) ==
    Keep([i \in 1..Len(msgs) |-> IsGenuine(msgs[i])], 1)

\* The handlers are called while the function waits: in the try block
\* (lines 60-168) and in browser.close() (line 228).
WalletListening == wpc \in {"navigating", "probing", "closing"}

WalletNow == Len(wevents) + 1

WalletDeliver(e) ==
    /\ WalletListening
    /\ Len(wevents) < MaxEvents
    /\ wevents' = Append(wevents, e)

WalletHandleConsole(msg) ==
    /\ WalletDeliver(msg)
    /\ console_messages' = wallet_handle_console_log(console_messages, msg,
                                                     WalletNow)
    /\ wout' = wallet_handle_console_out(wout, msg, WalletNow)
    /\ UNCHANGED <<wpc, js_errors, network_failures, error_details,
                   suppressed_errors, genuine_errors, wallet_result,
                   recVars, clsVars,
                   advVars, sesVars>>

WalletHandlePageError(error) ==
    /\ WalletDeliver(error)
    /\ js_errors' = wallet_handle_page_error_log(js_errors, WalletNow)
    /\ wout' = wallet_handle_page_error_out(wout, WalletNow)
    /\ UNCHANGED <<wpc, console_messages, network_failures, error_details,
                   suppressed_errors, genuine_errors, wallet_result,
                   recVars, clsVars,
                   advVars, sesVars>>

WalletHandleResponse(response) ==
    /\ WalletDeliver(response)
    /\ network_failures' = wallet_handle_response_log(network_failures,
                                                      response, WalletNow)
    /\ wout' = wallet_handle_response_out(wout, response, WalletNow)
    /\ UNCHANGED <<wpc, console_messages, js_errors, error_details,
                   suppressed_errors, genuine_errors, wallet_result,
                   recVars, clsVars,
                   advVars, sesVars>>

\* Lines 60-93: goto, the wait, the screenshot and the locator returned;
\* error_details is bound and holds one entry per banner element analysed.
WalletLocate(n) ==
    /\ wpc = "navigating"
    /\ error_details' = [bound |-> TRUE, n |-> n]
    /\ wpc' = "probing"
    /\ UNCHANGED <<console_messages, js_errors, network_failures,
                   suppressed_errors, genuine_errors, wallet_result, wout,
                   wevents, recVars, clsVars,
                   advVars, sesVars>>

\* Lines 170-171: an await of lines 60-70 raised (the goto timeout); the
\* except block prints and the function goes on with error_details unbound.
WalletNavigationFailed ==
    /\ wpc = "navigating"
    /\ wout' = Append(wout, [line |-> "Navigation failed", at |-> WalletNow,
                             what |-> "Timeout 30000ms exceeded"])
    /\ wpc' = "analysing"
    /\ UNCHANGED <<console_messages, js_errors, network_failures,
                   error_details, suppressed_errors, genuine_errors,
                   wallet_result, wevents, recVars, clsVars,
                   advVars, sesVars>>

\* Lines 96-168: the remaining probes returned, or one of their awaits
\* raised and the except block printed.
WalletProbed(raised) ==
    /\ wpc = "probing"
    /\ wout' = IF raised
               THEN Append(wout, [line |-> "Navigation failed",
                                  at |-> WalletNow,
                                  what |-> "Timeout 30000ms exceeded"])
               ELSE wout
    /\ wpc' = "analysing"
    /\ UNCHANGED <<console_messages, js_errors, network_failures,
                   error_details, suppressed_errors, genuine_errors,
                   wallet_result, wevents, recVars, clsVars,
                   advVars, sesVars>>

\* Lines 174-226: the summary is printed and the two lists are filtered.
\* len(error_details) at line 191 raises UnboundLocalError when the name
\* was never bound; the exception leaves the function.
WalletAnalyse ==
    /\ wpc = "analysing"
    /\ IF error_details.bound
       THEN /\ suppressed_errors' = SuppressedErrors(console_messages)
            /\ genuine_errors' = GenuineErrors(console_messages)
            /\ wpc' = "closing"
       ELSE /\ UNCHANGED <<suppressed_errors, genuine_errors>>
            /\ wpc' = "crashed"
    /\ UNCHANGED <<console_messages, js_errors, network_failures,
                   error_details, wallet_result, wout, wevents,
                   recVars, clsVars,
                   advVars, sesVars>>

\* Lines 228-237: browser.close() returned and the dict is returned.
WalletReturn ==
    /\ wpc = "closing"
    /\ wallet_result' =
          [returned |-> TRUE,
           console_messages |-> console_messages,
           js_errors |-> js_errors,
           network_failures |-> network_failures,
           error_ui_count |-> error_details.n,
           suppressed_count |-> Len(suppressed_errors),
           genuine_error_count |-> Len(genuine_errors)]
    /\ wpc' = "done"
    /\ UNCHANGED <<console_messages, js_errors, network_failures,
                   error_details, suppressed_errors, genuine_errors, wout,
                   wevents, recVars, clsVars,
                   advVars, sesVars>>

WalletNext ==
    \/ \E msg \in WalletConsoleEvents : WalletHandleConsole(msg)
    \/ \E error \in PageErrorEvents : WalletHandlePageError(error)
    \/ \E response \in WalletResponseEvents : WalletHandleResponse(response)
    \/ \E n \in 0..MaxBanners : WalletLocate(n)
    \/ WalletNavigationFailed
    \/ \E raised \in BOOLEAN : WalletProbed(raised)
    \/ WalletAnalyse
    \/ WalletReturn

\* one run of one of the two scripts
ScriptsInit ==
    /\ ClsIdle /\ AdvOff /\ SesOff
    /\ (RecInit /\ WalOff) \/ (RecOff /\ WalInit)

ScriptsNext == Next \/ WalletNext

SpecScripts == ScriptsInit /\ [][ScriptsNext]_vars

(***************************************************************************)
(* Properties of the two recording scripts.                                *)
(***************************************************************************)
\* no event was delivered and the probes of the page found nothing
\* the entries a filtered list refers to
Indices(refs) == {refs[n] : n \in 1..Len(refs)}

NothingObserved ==
    /\ events = <<>>
    /\ page_state.js_execution
    /\ page_state.error_boundary = ""

WalletNothingObserved == wevents = <<>> /\ error_details.n = 0

C25_BannerIndependent ==
    /\ saved # <<>>
          => /\ saved[1].page_state.error_boundary = page_state.error_boundary
             /\ "Error boundary activated" \in IssueNames
                    <=> page_state.error_boundary # ""
    /\ wallet_result.returned
          => wallet_result.error_ui_count = error_details.n

C25_Witness ==
    /\ saved # <<>>
    /\ page_state.error_boundary # ""
    /\ error_logs = <<>>
    /\ failed_requests = <<>>
    /\ page_state.js_execution
    /\ IssueNames = {"Error boundary activated"}

\* C28: in analyze_wallet_errors no console message is counted both as
\* suppressed and as genuine: the analysis puts a message in the genuine
\* list iff its type is 'error' and its text does not contain
\* 'suppressed', in the suppressed list iff its text contains it, and the
\* two returned counts together never exceed the number of console
\* messages returned.
WalletAnalysed == wpc = "analysing" /\ wpc' = "closing"

WalletReturned == wpc = "closing" /\ wpc' = "done"

C28_NoDoubleCount ==
    [][/\ WalletAnalysed
             => /\ \A i \in 1..Len(console_messages) :
                      /\ i \in Indices(genuine_errors')
                            <=> /\ console_messages[i].type = "error"
                                /\ ~InLower("suppressed",
                                            console_messages[i].text)
                      /\ i \in Indices(suppressed_errors')
                            <=> InLower("suppressed", console_messages[i].text)
                /\ Indices(genuine_errors') \cap Indices(suppressed_errors')
                      = {}
                /\ Cardinality(Indices(genuine_errors'))
                      = Len(genuine_errors')
                /\ Cardinality(Indices(suppressed_errors'))
                      = Len(suppressed_errors')
       /\ WalletReturned
             => /\ wallet_result'.genuine_error_count = Len(genuine_errors)
                /\ wallet_result'.suppressed_count = Len(suppressed_errors)
                /\ wallet_result'.genuine_error_count
                      + wallet_result'.suppressed_count
                      <= Len(wallet_result'.console_messages)]_vars

C28_Witness ==
    /\ wallet_result.returned
    /\ wallet_result.genuine_error_count = 1
    /\ wallet_result.suppressed_count = 1
    /\ \E i \in 1..Len(console_messages) :
          /\ console_messages[i].type = "error"
          /\ InLower("suppressed", console_messages[i].text)

\* the lines of a printed sequence that echo event k
Echoes(o, k, line) == {n \in 1..Len(o) : o[n].at = k /\ o[n].line = line}

\* the printed lines follow the order of the events
InArrivalOrder(o) == \A n, m \in 1..Len(o) : n < m => o[n].at <= o[m].at

\* C19: each console message of severity error and each page error is
\* printed exactly once, by the handler that records it: its line is there
\* as soon as the event is, before the next event and before any report.
C19_LiveEcho ==
    /\ \A k \in 1..Len(events) :
          /\ events[k].kind = "console" /\ events[k].type = "error"
                => Cardinality(Echoes(out, k, "CONSOLE")) = 1
          /\ events[k].kind = "pageerror"
                => Cardinality(Echoes(out, k, "PAGE ERROR")) = 1
          /\ events[k].kind = "console"
                => \E i \in 1..Len(console_logs) :
                      /\ console_logs[i].timestamp = k
                      /\ console_logs[i].type = events[k].type
    /\ InArrivalOrder(out)
    /\ \A k \in 1..Len(wevents) :
          /\ wevents[k].kind = "console"
                => Cardinality(Echoes(wout, k, "Console")) = 1
          /\ wevents[k].kind = "pageerror"
                => Cardinality(Echoes(wout, k, "Page Error")) = 1
    /\ InArrivalOrder(wout)

C19_Witness ==
    /\ ~summary.built
    /\ \E k \in 1..Len(events) :
          /\ events[k].kind = "console" /\ events[k].type = "error"
          /\ Cardinality(Echoes(out, k, "CONSOLE")) = 1
    /\ \E k \in 1..Len(events) :
          /\ events[k].kind = "console" /\ events[k].type = "log"
          /\ Echoes(out, k, "CONSOLE") = {}

\* the events of a kind, by ordinal
OfKind(kind) == {k \in 1..Len(events) : events[k].kind = kind}

\* the entries of a log carry the ordinals of its events, each once, in
\* rising order
InOrderOf(log, ordinals) ==
    /\ Len(log) = Cardinality(ordinals)
    /\ \A i \in 1..Len(log) : log[i].timestamp \in ordinals
    /\ \A i, j \in 1..Len(log) : i < j => log[i].timestamp < log[j].timestamp

Rising(refs) == \A n, m \in 1..Len(refs) : n < m => refs[n] < refs[m]

PageErrors(errs) ==
    [n \in 1..Len(Keep([i \in 1..Len(errs) |-> errs[i].type = "page_error"], 1))
        |-> errs[Keep([i \in 1..Len(errs) |-> errs[i].type = "page_error"], 1)[n]]]

\* C20: within the console log, the request log and the error log, and
\* within the lists of failed requests and of console errors, an entry
\* recorded before another one precedes it.
C20_ArrivalOrder ==
    /\ InOrderOf(console_logs, OfKind("console"))
    /\ InOrderOf(network_requests, OfKind("request"))
    /\ InOrderOf(PageErrors(errors), OfKind("pageerror"))
    /\ \A i, j \in 1..Len(errors) :
          i < j => errors[i].timestamp <= errors[j].timestamp
    /\ Rising(failed_requests)
    /\ Rising(error_logs)
    /\ saved # <<>>
          => /\ IsPrefix(saved[1].console_logs, console_logs)
             /\ Len(saved[1].network_requests) <= Len(network_requests)
             /\ \A i \in 1..Len(saved[1].network_requests) :
                   RequestKeys(saved[1].network_requests[i])
                      = RequestKeys(network_requests[i])
             /\ IsPrefix(saved[1].errors, errors)

C20_Witness ==
    /\ saved # <<>>
    /\ Len(saved[1].console_logs) >= 2
    /\ Len(error_logs) >= 1
    /\ Len(errors) >= 1

(***************************************************************************)
(* Properties of the correlation table.                                    *)
(***************************************************************************)
ResponseKeys(req) ==
    [status |-> req.status, status_text |-> req.status_text,
     headers_response |-> req.headers_response, ok |-> req.ok]

\* C26: a request linked to a response keeps it: no later response with
\* the same URL overwrites the status, status text, response headers and
\* success flag recorded for the request.
C26_LinkedResponseKept ==
    [][\A i \in 1..Len(network_requests) :
          network_requests[i].has_status
             => /\ i <= Len(network_requests')
                /\ ResponseKeys(network_requests'[i])
                      = ResponseKeys(network_requests[i])]_vars

\* C27: at aggregation every recorded request is in exactly one of the
\* classes failed, successful and pending: the three counts add up to the
\* number of requests, and no request is both failed and successful.
C27_ThreeClasses ==
    LET failed == FailedRequests(network_requests)
        successful == SuccessfulRequests(network_requests)
    IN  /\ Len(failed) + Len(successful) + Cardinality(Pending)
              = Len(network_requests)
        /\ Indices(failed) \cap Indices(successful) = {}
        /\ Indices(failed) \cap Pending = {}
        /\ Indices(successful) \cap Pending = {}
        /\ Indices(failed) \cup Indices(successful) \cup Pending
              = 1..Len(network_requests)
        /\ Cardinality(Indices(failed)) = Len(failed)
        /\ Cardinality(Indices(successful)) = Len(successful)
        /\ pc = "screenshot" /\ late = 0 => failed_requests = failed

C27_Witness ==
    /\ pc = "screenshot"
    /\ Len(failed_requests) = 1
    /\ Cardinality(Pending) = 1
    /\ Len(network_requests) = 2

\* C30: on every exit path of comprehensive_debug_investigation the
\* browser is eventually closed, and when it is closed a summary has been
\* built to be returned with debug_data, in the normal and in the
\* exceptional case.
C30_BrowserReleased ==
    /\ <>(pc = "closed")
    /\ [](pc = "closed" => summary.built)
    /\ [](pc = "closed" /\ ~TimedOut => saved # <<>>)

C30_Witness ==
    /\ pc = "closed"
    /\ TimedOut
    /\ summary.built
    /\ saved = <<>>
    /\ events # <<>>

(***************************************************************************)
(* advanced_personapass_test.py: the browser simulation (the Node script   *)
(* of lines 31-258, or run_alternative_simulation when node is missing)    *)
(* and run_comprehensive_test.                                             *)
(*                                                                         *)
(* A script body holds at most one marker line and refs lines that name    *)
(* ReferenceError.  A list of matches is a sequence of runs: n copies of   *)
(* one matched string, found in one script.                                *)
(***************************************************************************)
NodeLine == "Node cannot be found"
RefLine == "throw new ReferenceError(name)"
Markers == {"", LineA, NodeLine}

\* what fetching a script ends in: HTTP 200, another status, no answer
\* within the timeout, no connection
ScriptFetches == {"ok", "http_404", "timeout", "refused"}

AdvScriptSet ==
    [fetch : {"ok"}, marker : Markers, refs : 0..MaxMatches]
    \cup [fetch : ScriptFetches \ {"ok"}, marker : {""}, refs : {0}]

\* lines 365-372
py_error_patterns ==
    << "SyntaxError", "Invalid or unexpected token", "Node cannot be found",
       "Uncaught.*Error", "TypeError.*not defined", "ReferenceError" >>

\* lines 127-138
js_error_patterns ==
    << "SyntaxError", "Invalid or unexpected token", "Node cannot be found",
       "Uncaught", "TypeError", "ReferenceError", "Cannot read property",
       "Cannot read properties of", "is not defined", "is not a function" >>

\* re.findall(pattern, script_content) and content.match(/pattern/g): the
\* string every match of the pattern is, and how many there are
MatchOf(pattern, script) ==
    CASE pattern = "SyntaxError" /\ script.marker = LineA ->
            [match |-> "SyntaxError", n |-> 1]
      [] pattern = "Uncaught.*Error" /\ script.marker = LineA ->
            [match |-> "Uncaught SyntaxError", n |-> 1]
      [] pattern = "Uncaught" /\ script.marker = LineA ->
            [match |-> "Uncaught", n |-> 1]
      [] pattern = "Node cannot be found" /\ script.marker = NodeLine ->
            [match |-> "Node cannot be found", n |-> 1]
      [] pattern = "ReferenceError" ->
            [match |-> "ReferenceError", n |-> script.refs]
      [] OTHER -> [match |-> "", n |-> 0]

\* the matches of the patterns from the i-th on, pattern after pattern
RECURSIVE Matches(_, _, _, _)
Matches(patterns, script, id, i) ==
    IF i > Len(patterns) THEN <<>>
    ELSE LET m == MatchOf(patterns[i], script)
         IN  (IF m.n > 0
              THEN <<[script |-> id, match |-> m.match, n |-> m.n]>>
              ELSE <<>>)
             \o Matches(patterns, script, id, i + 1)

\* len(total_errors)
RECURSIVE RunLen(_)
RunLen(runs) ==
    IF runs = <<>> THEN 0 ELSE Head(runs).n + RunLen(Tail(runs))

\* total_errors[:k], totalErrors.slice(0, k)
RECURSIVE Take(_, _)
Take(runs, k) ==
    IF runs = <<>> \/ k = 0 THEN <<>>
    ELSE IF Head(runs).n <= k
         THEN <<Head(runs)>> \o Take(Tail(runs), k - Head(runs).n)
         ELSE <<[Head(runs) EXCEPT !.n = k]>>

\* 'SyntaxError' in str(e) or 'Invalid or unexpected token' in str(e)
IsSyntaxError(match) == match \in {"SyntaxError", "Uncaught SyntaxError"}

\* 'Node cannot be found' in str(e)
IsNodeError(match) == match = "Node cannot be found"

\* lines 497-498: the list comprehensions over error_details
RECURSIVE Select(_, _)
Select(runs, kind) ==
    IF runs = <<>> THEN <<>>
    ELSE (IF \/ kind = "syntax" /\ IsSyntaxError(Head(runs).match)
             \/ kind = "node" /\ IsNodeError(Head(runs).match)
          THEN <<Head(runs)>> ELSE <<>>)
         \o Select(Tail(runs), kind)

\* lines 197-214, one script in the Node script: fetchScript rejects on
\* every status but 200, on a request error and on the timeout, and the
\* catch pushes 'Script load error'
NodeScript(script, id) ==
    IF script.fetch = "ok"
    THEN Matches(js_error_patterns, script, id, 1)
    ELSE <<[script |-> id, match |-> "Script load error", n |-> 1]>>

\* lines 356-383, one script under curl: curl -s exits 0 on an HTTP error
\* and prints the error page, which is then searched like a script; a
\* nonzero exit code skips the script; only the timeout is recorded
CurlScript(script, id) ==
    CASE script.fetch \in {"ok", "http_404"} ->
            Matches(py_error_patterns, script, id, 1)
      [] script.fetch = "timeout" ->
            <<[script |-> id, match |-> "Script timeout", n |-> 1]>>
      [] OTHER -> <<>>

CurlAnalyzed(script) == script.fetch \in {"ok", "http_404"}

SimError(msg, method) ==
    [returned |-> TRUE, error |-> msg, page_loads |-> FALSE,
     has_counts |-> FALSE, total_errors |-> 0, error_details |-> <<>>,
     method |-> method]

AdvInit ==
    /\ apc = "start"
    /\ adv_scripts \in UNION {[1..n -> AdvScriptSet] : n \in 0..MaxScripts}
    /\ AdvEmpty
    /\ RecOff /\ ClsIdle /\ WalOff /\ SesOff

advFrame == <<recVars, clsVars, walVars, sesVars>>

\* lines 279-317: node exits nonzero, or runs into the 60 s timeout
AdvNodeFailed ==
    /\ apc = "start"
    /\ simulation_result' = SimError("Simulation timeout", "node_simulation")
    /\ apc' = "simulated"
    /\ UNCHANGED <<adv_scripts, adv_method, adv_i, total_errors,
                   scripts_analyzed, attempted, final_results, advFrame>>

\* The page cannot be fetched.  Node script: runTest catches and prints no
\* report, and lines 303-307 return page_loads from the text 'Fetching main
\* page', which was logged before the fetch.  curl: line 395.
AdvPageDown(node) ==
    /\ apc = "start"
    /\ simulation_result' =
          IF node
          THEN [returned |-> TRUE, error |-> "", page_loads |-> TRUE,
                has_counts |-> FALSE, total_errors |-> 0,
                error_details |-> <<>>, method |-> "node_simulation"]
          ELSE SimError("Could not fetch HTML", "curl_analysis")
    /\ apc' = "simulated"
    /\ UNCHANGED <<adv_scripts, adv_method, adv_i, total_errors,
                   scripts_analyzed, attempted, final_results, advFrame>>

\* lines 179-195 and 331-350: the page is fetched and the loop starts
AdvPageFetched(node) ==
    /\ apc = "start"
    /\ adv_method' = IF node THEN "node_simulation" ELSE "curl_analysis"
    /\ adv_i' = 1
    /\ apc' = "scripts"
    /\ UNCHANGED <<adv_scripts, total_errors, scripts_analyzed, attempted,
                   simulation_result, final_results, advFrame>>

\* one turn of the loop over the scripts
AdvScript ==
    /\ apc = "scripts"
    /\ adv_i <= Len(adv_scripts)
    /\ attempted' = attempted \cup {adv_i}
    /\ total_errors' =
          total_errors
          \o (IF adv_method = "node_simulation"
              THEN NodeScript(adv_scripts[adv_i], adv_i)
              ELSE CurlScript(adv_scripts[adv_i], adv_i))
    /\ scripts_analyzed' =
          IF adv_method = "curl_analysis" /\ CurlAnalyzed(adv_scripts[adv_i])
          THEN scripts_analyzed + 1
          ELSE scripts_analyzed
    /\ adv_i' = adv_i + 1
    /\ UNCHANGED <<apc, adv_scripts, adv_method, simulation_result,
                   final_results, advFrame>>

\* lines 219-237 and 385-393: the report
AdvReport ==
    /\ apc = "scripts"
    /\ adv_i > Len(adv_scripts)
    /\ simulation_result' =
          [returned |-> TRUE, error |-> "", page_loads |-> TRUE,
           has_counts |-> TRUE, total_errors |-> RunLen(total_errors),
           error_details |-> Take(total_errors, SampleCap),
           method |-> adv_method]
    /\ apc' = "simulated"
    /\ UNCHANGED <<adv_scripts, adv_method, adv_i, total_errors,
                   scripts_analyzed, attempted, final_results, advFrame>>

\* lines 501-508
overall_status(page_loads, has_errors, button, syntax_errors, node_errors) ==
    IF page_loads /\ ~has_errors /\ button THEN "EXCELLENT"
    ELSE IF page_loads /\ syntax_errors = <<>> /\ node_errors = <<>>
         THEN "GOOD"
         ELSE IF page_loads THEN "FAIR" ELSE "POOR"

\* lines 488-521
AdvAssess(button_likely_works) ==
    /\ apc = "simulated"
    /\ LET page_loads == simulation_result.page_loads
           has_errors == simulation_result.total_errors > 0
           syntax_errors == Select(simulation_result.error_details, "syntax")
           node_errors == Select(simulation_result.error_details, "node")
       IN  final_results' =
              [built |-> TRUE,
               page_loads_without_errors |-> page_loads /\ ~has_errors,
               create_credential_button_functional |-> button_likely_works,
               ui_interactions_functional |-> page_loads,
               error_suppression_working |->
                   syntax_errors = <<>> /\ node_errors = <<>>,
               syntax_errors_found |-> syntax_errors,
               node_errors_found |-> node_errors,
               overall_assessment |->
                   overall_status(page_loads, has_errors, button_likely_works,
                                  syntax_errors, node_errors)]
    /\ apc' = "done"
    /\ UNCHANGED <<adv_scripts, adv_method, adv_i, total_errors,
                   scripts_analyzed, attempted, simulation_result, advFrame>>

AdvNext ==
    \/ AdvNodeFailed
    \/ \E node \in BOOLEAN : AdvPageDown(node)
    \/ \E node \in BOOLEAN : AdvPageFetched(node)
    \/ AdvScript
    \/ AdvReport
    \/ \E button_likely_works \in BOOLEAN : AdvAssess(button_likely_works)

SpecAdvanced == AdvInit /\ [][AdvNext]_vars

(***************************************************************************)
(* Properties of advanced_personapass_test.py.                             *)
(***************************************************************************)
LoadErrors == {"Script load error", "Script timeout"}

Recorded(id, matches) ==
    \E r \in 1..Len(total_errors) :
        total_errors[r].script = id /\ total_errors[r].match \in matches

\* C22: when the fetch of a script fails, a load-error entry is recorded
\* for that script, and every other script is still fetched and searched.
C22_FetchFailureRecorded ==
    simulation_result.returned /\ simulation_result.has_counts
        => \A id \in 1..Len(adv_scripts) :
              /\ id \in attempted
              /\ adv_scripts[id].fetch # "ok" => Recorded(id, LoadErrors)
              /\ adv_scripts[id].fetch = "ok" /\ adv_scripts[id].refs > 0
                    => Recorded(id, {"ReferenceError"})

\* the runs of total_errors that are matches of one of the three patterns
NamedPatterns ==
    {"SyntaxError", "Invalid or unexpected token", "Node cannot be found"}

Critical ==
    {r \in 1..Len(total_errors) : total_errors[r].match \in NamedPatterns}

Found(run) ==
    \E f \in {final_results.syntax_errors_found,
              final_results.node_errors_found} :
        \E n \in 1..Len(f) : f[n] = run

\* C29: when total_errors counts a 'SyntaxError', 'Invalid or unexpected
\* token' or 'Node cannot be found' match, the match is in
\* syntax_errors_found or node_errors_found, error_suppression_working is
\* false and the assessment is neither EXCELLENT nor GOOD.
C29_CriticalMatchReported ==
    final_results.built /\ simulation_result.has_counts /\ Critical # {}
        => /\ \A r \in Critical : Found(total_errors[r])
           /\ ~final_results.error_suppression_working
           /\ final_results.overall_assessment \notin {"EXCELLENT", "GOOD"}

(***************************************************************************)
(* Several calls of comprehensive_debug_investigation in one event loop.   *)
(* debug_data, summary and the handlers are locals of the call (lines      *)
(* 37-122); the path of debug_report.json is the same for every call.      *)
(***************************************************************************)
Sessions == 1..MaxSessions

\* both sessions load the same script, which is answered 404
SessionEvents ==
    [kind : {"request"}, url : {ScriptUrl}]
    \cup [kind : {"response"}, url : {ScriptUrl}, status : {404},
          content_type : {"text/html"}]
    \cup [kind : {"console"}, type : {"error"}]

\* lines 38-47
EmptyData ==
    [console_logs |-> <<>>, network_requests |-> <<>>, errors |-> <<>>,
     page_state |-> [error_boundary |-> "", js_execution |-> TRUE]]

SessionStart ==
    [pc |-> "observing", d |-> EmptyData, evs |-> <<>>,
     analysis |-> Aggregate(EmptyData),
     summary |-> [built |-> FALSE, critical_issues |-> <<>>],
     saved |-> <<>>]

\* the handler of the event's kind, applied to a debug_data
Apply(d, e, ts) ==
    CASE e.kind = "console" ->
            [d EXCEPT !.console_logs = handle_console_log(@, e, ts)]
      [] e.kind = "request" ->
            [d EXCEPT !.network_requests = handle_request_log(@, e, ts)]
      [] e.kind = "response" ->
            [d EXCEPT !.network_requests = handle_response_log(@, e)]
      [] OTHER ->
            [d EXCEPT !.errors = handle_page_error_log(@, ts)]

\* a slip: debug_data kept at module level, one dict for every call
Owner_Global(s) == 1

\* the debug_data the handlers registered by call s close over: its own
Owner(s) == s

RECURSIVE Delivered(_)
Delivered(s) ==
    IF s = 0 THEN 0 ELSE Len(sessions[s].evs) + Delivered(s - 1)

\* datetime.now(): one clock for every session
SessionNow == Delivered(MaxSessions) + 1

SessionsInit ==
    /\ sessions = [s \in Sessions |-> SessionStart]
    /\ report_file = <<>>
    /\ RecOff /\ ClsIdle /\ WalOff /\ AdvOff

sesFrame == <<recVars, clsVars, walVars, advVars>>

\* a handler of session s is called with an event of its page
SessionEvent(s, e) ==
    /\ sessions[s].pc \in {"observing", "screenshot", "closing"}
    /\ Len(sessions[s].evs) < MaxSessionEvents
    /\ sessions' =
          [sessions EXCEPT
              ![s].evs = Append(@, [event |-> e, at |-> SessionNow]),
              ![Owner(s)].d = Apply(@, e, SessionNow)]
    /\ UNCHANGED <<report_file, sesFrame>>

\* lines 124-228 of session s: the probes return and the logs are
\* filtered.  The page of these sessions shows no banner and runs the
\* JavaScript test, so page_state keeps the values of EmptyData.
SessionProbe(s) ==
    /\ sessions[s].pc = "observing"
    /\ sessions' =
          [sessions EXCEPT ![s].pc = "screenshot",
                           ![s].analysis = Aggregate(sessions[Owner(s)].d)]
    /\ UNCHANGED <<report_file, sesFrame>>

\* lines 235-275 of session s: the summary, and json.dump to the one path
SessionSave(s) ==
    /\ sessions[s].pc = "screenshot"
    /\ sessions' =
          [sessions EXCEPT
              ![s].pc = "closing",
              ![s].summary =
                  [built |-> TRUE,
                   critical_issues |-> sessions[s].analysis.critical_issues],
              ![s].saved = <<sessions[Owner(s)].d>>]
    /\ report_file' = <<sessions[Owner(s)].d>>
    /\ UNCHANGED sesFrame

\* lines 277-284 of session s
SessionFail(s) ==
    /\ sessions[s].pc \in {"observing", "screenshot"}
    /\ sessions' =
          [sessions EXCEPT
              ![s].pc = "closing",
              ![s].summary =
                  [built |-> TRUE,
                   critical_issues |->
                       <<[issue |-> "Timeout 30000ms exceeded", n |-> 0]>>],
              ![Owner(s)].d.errors =
                  Append(@, [timestamp |-> SessionNow,
                             message |-> "Timeout 30000ms exceeded",
                             type |-> "investigation_error"])]
    /\ UNCHANGED <<report_file, sesFrame>>

\* lines 286-287 of session s
SessionClose(s) ==
    /\ sessions[s].pc = "closing"
    /\ sessions' = [sessions EXCEPT ![s].pc = "closed"]
    /\ UNCHANGED <<report_file, sesFrame>>

SessionsNext ==
    \E s \in Sessions :
        \/ \E e \in SessionEvents : SessionEvent(s, e)
        \/ SessionProbe(s)
        \/ SessionSave(s)
        \/ SessionFail(s)
        \/ SessionClose(s)

SpecSessions == SessionsInit /\ [][SessionsNext]_vars

(***************************************************************************)
(* Properties of concurrent sessions.                                      *)
(***************************************************************************)
\* what a session run alone records of the first n of the events evs, each
\* at its own time
RECURSIVE Replay(_, _)
Replay(evs, n) ==
    IF n = 0 THEN EmptyData
    ELSE Apply(Replay(evs, n - 1), evs[n].event, evs[n].at)

IsPageError(entry) == entry.type = "page_error"

\* the three logs of d are those of the first n events of evs
LogsOf(d, evs, n) ==
    /\ d.console_logs = Replay(evs, n).console_logs
    /\ d.network_requests = Replay(evs, n).network_requests
    /\ SelectSeq(d.errors, IsPageError) = Replay(evs, n).errors

====
